---- MODULE Spec2Model ----
(***************************************************************************)
(* Convector: the lane-parallel sampler (src/src/random.rs) and the frame  *)
(* buffer, tile renderer and shading function (src/src/renderer.rs).       *)
(*                                                                         *)
(* Number representations.  TLC integers are 32 bits wide, so              *)
(*   - a u64 is a tuple of 8 bytes, least significant first (the layout    *)
(*     the x86 target gives it in memory);                                 *)
(*   - an i32/u32 lane obtained by transmuting a u64 is a tuple of 4       *)
(*     bytes, least significant first;                                     *)
(*   - an f32 is a record [m, e] that stands for the real m * 2^e, with    *)
(*     |m| <= 2^24 (a 24 bit significand).                                 *)
(***************************************************************************)
EXTENDS Integers, Sequences, FiniteSets, TLC

(***************************************************************************)
(* Bounds of the model.                                                    *)
(***************************************************************************)
MaxDraws == 2        \* sample calls per sampler

(***************************************************************************)
(* The state: the samplers, one session's renderer and frame buffer, the   *)
(* worker tasks that write to the buffer, and a call of the irradiance     *)
(* term.                                                                   *)
(***************************************************************************)
VARIABLES
    rng,      \* rng[s]: the state (4 lanes of u64) of sampler s, <<>> before with_seed
    seed,     \* seed[s]: the (x, y, i) sampler s was constructed with, <<>> before
    hist      \* hist[s]: the sample calls made on s, [kind, out] each, oldest first

rngVars == <<rng, seed, hist>>

VARIABLES
    width,     \* Renderer.width, also the width the buffer was allocated with
    height,    \* Renderer.height, also the height of the buffer
    scene,     \* the state of the scene collaborator (moved by update_scene)
    buffer,    \* RenderBuffer.buffer: the Vec<Mi32>, word i at buffer[i + 1]
    bufState,  \* "none" before new, "live", "consumed" once into_bitmap took it
    written,   \* the indices (from 0) of the words stored to since allocation
    bitmap,    \* the Vec<u8> into_bitmap returned, <<>> before
    err,       \* "" or the failure the last call panicked with
    last,      \* the last call and its arguments
    ops        \* calls made on the buffer since new

bufVars == <<width, height, scene, buffer, bufState, written, bitmap, err, last, ops>>

VARIABLES
    tasks,    \* tasks[t] = [x, y, stores, pc]: the block of task t, the 8 stores
              \* it has computed for it, and how many of them it has done
    stored,   \* the pairs <<t, idx>>: task t has stored to word idx
    start,    \* the buffer as it was when the tasks were dispatched
    mixed     \* a store happened while another task was inside its block

parVars == <<tasks, stored, start, mixed>>

VARIABLES
    shade     \* the last call of get_irradiance: its inputs and its result

(***************************************************************************)
(* 64 bit wrapping arithmetic on byte tuples.                              *)
(***************************************************************************)
Byte == 0..255

RECURSIVE U64FromNat(_, _)
U64FromNat(n, k) ==
    IF k = 0 THEN <<>> ELSE <<n % 256>> \o U64FromNat(n \div 256, k - 1)

\* `x as u64` for a u32 x (the model's seeds are below 2^31).
AsU64(x) == U64FromNat(x, 8)

RECURSIVE AddFrom(_, _, _, _)
AddFrom(a, b, k, carry) ==
    IF k > 8 THEN <<>>
    ELSE LET s == a[k] + b[k] + carry
         IN  <<s % 256>> \o AddFrom(a, b, k + 1, s \div 256)

\* u64::wrapping_add
wrapping_add(a, b) == AddFrom(a, b, 1, 0)

RECURSIVE SumProd(_, _, _, _)
SumProd(a, b, k, i) ==
    IF i > k THEN 0 ELSE a[i] * b[k + 1 - i] + SumProd(a, b, k, i + 1)

RECURSIVE MulFrom(_, _, _, _)
MulFrom(a, b, k, carry) ==
    IF k > 8 THEN <<>>
    ELSE LET s == SumProd(a, b, k, 1) + carry
         IN  <<s % 256>> \o MulFrom(a, b, k + 1, s \div 256)

\* u64::wrapping_mul, and the lane-wise `*` of Mu64
wrapping_mul(a, b) == MulFrom(a, b, 1, 0)

\* a < b, comparing from the most significant byte down
RECURSIVE LessFrom(_, _, _)
LessFrom(a, b, k) ==
    IF k = 0 THEN FALSE
    ELSE IF a[k] # b[k] THEN a[k] < b[k]
    ELSE LessFrom(a, b, k - 1)

U64Less(a, b) == LessFrom(a, b, 8)

RECURSIVE SubFrom(_, _, _, _)
SubFrom(a, b, k, borrow) ==
    IF k > 8 THEN <<>>
    ELSE LET d == a[k] - b[k] - borrow
         IN  <<d % 256>> \o SubFrom(a, b, k + 1, IF d < 0 THEN 1 ELSE 0)

U64Sub(a, b) == SubFrom(a, b, 1, 0)

\* A decimal u64 literal, written as its digits in three groups (2, 9 and 9
\* digits): hi * 10^18 + mid * 10^9 + lo.
U64Lit(hi, mid, lo) ==
    LET e9 == AsU64(1000000000)
    IN  wrapping_add(
            wrapping_mul(
                wrapping_add(wrapping_mul(AsU64(hi), e9), AsU64(mid)), e9),
            AsU64(lo))

U64Zero == AsU64(0)

(***************************************************************************)
(* Binary32 floating point as the Mf32 and Mi32 lanes compute it (IEEE 754, *)
(* round to nearest even).  A value is [m, e] for m * 2^e, kept with m odd *)
(* (or [0, 0]); the exponent range is not bounded: the values of this      *)
(* model lie between 2^-40 and 2^40.                                       *)
(***************************************************************************)
RECURSIVE Pow2(_)
Pow2(n) == IF n = 0 THEN 1 ELSE 2 * Pow2(n - 1)

Abs(n) == IF n < 0 THEN -n ELSE n
Sign(n) == IF n < 0 THEN -1 ELSE 1

RECURSIVE F32Norm(_)
F32Norm(f) ==
    IF f.m = 0 THEN [m |-> 0, e |-> 0]
    ELSE IF f.m % 2 = 0 THEN F32Norm([m |-> f.m \div 2, e |-> f.e + 1])
    ELSE f

\* number of bits of n > 0
RECURSIVE BitLen(_)
BitLen(n) == IF n = 0 THEN 0 ELSE 1 + BitLen(n \div 2)

\* Rounds the natural number n (below 2^31) to `bits` significant bits, to
\* nearest with ties to even; the result is [m, e] with n ~ m * 2^e.
RoundNat(n, bits) ==
    LET len == BitLen(n)
    IN  IF len <= bits THEN [m |-> n, e |-> 0]
        ELSE LET sh   == len - bits
                 q    == n \div Pow2(sh)
                 r    == n % Pow2(sh)
                 half == Pow2(sh - 1)
                 up   == r > half \/ (r = half /\ q % 2 = 1)
             IN  [m |-> IF up THEN q + 1 ELSE q, e |-> sh]

F32Zero == [m |-> 0, e |-> 0]
F32One  == [m |-> 1, e |-> 0]
F32Neg(f) == [m |-> -f.m, e |-> f.e]

\* The significand of a non-zero f moved into [2^23, 2^24).
Aligned(f) ==
    LET sh == 24 - BitLen(Abs(f.m))
    IN  [sig |-> Abs(f.m) * Pow2(sh), exp |-> f.e - sh, neg |-> f.m < 0]

\* a + b, rounded once.  The operand of smaller magnitude is shifted right
\* behind three extra bits, the last of which is sticky.
F32Add(a, b) ==
    IF a.m = 0 THEN F32Norm(b)
    ELSE IF b.m = 0 THEN F32Norm(a)
    ELSE
    LET A0   == Aligned(a)
        B0   == Aligned(b)
        aBig == A0.exp > B0.exp \/ (A0.exp = B0.exp /\ A0.sig >= B0.sig)
        A    == IF aBig THEN A0 ELSE B0
        B    == IF aBig THEN B0 ELSE A0
        d    == A.exp - B.exp
        X    == A.sig * 8
        full == B.sig * 8
        Y    == IF d >= 27 THEN 1
                ELSE LET q == full \div Pow2(d)
                         r == full % Pow2(d)
                     IN  IF r # 0 /\ q % 2 = 0 THEN q + 1 ELSE q
        S    == IF A.neg = B.neg THEN X + Y ELSE X - Y
        R    == RoundNat(S, 24)
    IN  F32Norm([m |-> IF A.neg THEN -R.m ELSE R.m, e |-> A.exp - 3 + R.e])

F32Sub(a, b) == F32Add(a, F32Neg(b))

\* a * b, rounded once; defined where the exact product of the odd
\* significands is below 2^31.
F32Mul(a, b) ==
    LET p == Abs(a.m) * Abs(b.m)
        R == RoundNat(p, 24)
    IN  F32Norm([m |-> Sign(a.m) * Sign(b.m) * R.m, e |-> a.e + b.e + R.e])

\* Mf32::mul_add, a * b + c.  Every use multiplies by a power of two, whose
\* product is exact, so the fused and the unfused form round the same way.
mul_add(a, b, c) == F32Add(F32Mul(a, b), c)

\* Mf32::max of two lanes
F32Max(a, b) == IF F32Sub(a, b).m < 0 THEN b ELSE a

\* the sign bit of f is clear (Mf32::all_sign_bits_positive, one lane)
SignBitPositive(f) == f.m >= 0

\* `n as f32` for an i32 given by its magnitude hi * 256 + lo (lo < 256,
\* hi <= 2^23) and its sign.
F32FromMagnitude(neg, hi, lo) ==
    LET len == BitLen(hi) + 8
        R   == IF hi = 0 THEN [m |-> lo, e |-> 0]
               ELSE IF len <= 24 THEN [m |-> hi * 256 + lo, e |-> 0]
               ELSE LET sh   == len - 24
                        q    == hi * Pow2(8 - sh) + lo \div Pow2(sh)
                        r    == lo % Pow2(sh)
                        half == Pow2(sh - 1)
                        up   == r > half \/ (r = half /\ q % 2 = 1)
                    IN  [m |-> IF up THEN q + 1 ELSE q, e |-> sh]
    IN  F32Norm([m |-> IF neg THEN -R.m ELSE R.m, e |-> R.e])

\* Mi32::into_mf32 on one lane: the lane's 4 bytes read as a two's
\* complement i32, converted to the nearest f32.
into_mf32(l) ==
    IF l[4] < 128
    THEN F32FromMagnitude(FALSE, l[2] + 256 * l[3] + 65536 * l[4], l[1])
    ELSE LET c0 == 255 - l[1] + 1
             hi == (255 - l[2]) + 256 * (255 - l[3]) + 65536 * (255 - l[4])
         IN  IF c0 = 256 THEN F32FromMagnitude(TRUE, hi + 1, 0)
                         ELSE F32FromMagnitude(TRUE, hi, c0)

(***************************************************************************)
(* The lane-parallel sampler, src/src/random.rs.                           *)
(***************************************************************************)
Samplers == 1..2

\* The seeds the model constructs samplers with: the origin, the seed of the
\* repository's tests, a block of a later frame, and a tile of frame 709.
SeedChoices == { <<0, 0, 0>>, <<2, 5, 7>>, <<16, 4, 1>>, <<992, 604, 709>> }

Lanes4 == 1..4
Lanes8 == 1..8

\* The multipliers of next(), f1 .. f4.
Factors ==
    << wrapping_mul(AsU64(3),  U64Lit(1, 73243692, 214514217)),
       wrapping_mul(AsU64(5),  U64Lit(3, 335100457, 702756523)),
       wrapping_mul(AsU64(7),  U64Lit(0, 8789056, 573444181)),
       wrapping_mul(AsU64(11), U64Lit(0, 781436371, 140792079)) >>

\* The scalar seed of with_seed: the three inputs hashed together, then
\* folded through the remainder modulo a prime.
SeedHash(x, y, i) ==
    LET a      == wrapping_mul(AsU64(x), U64Lit(12, 276630456, 901467871))
        b      == wrapping_mul(AsU64(y), U64Lit(7, 661526868, 48087387))
        c      == wrapping_mul(AsU64(i), U64Lit(2, 268244495, 640532043))
        seed0  == wrapping_add(wrapping_add(a, b), c)
        \* seed % 9358246936573323101: the modulus exceeds 2^63, so the
        \* remainder is the seed itself or the seed less the modulus
        prime  == U64Lit(9, 358246936, 573323101)
        rem    == IF U64Less(seed0, prime) THEN seed0 ELSE U64Sub(seed0, prime)
    IN  wrapping_add(seed0, rem)

\* `primes` of with_seed
SeedPrimes ==
    << U64Lit(14, 491630826, 648200009),
       U64Lit(13, 149596372, 461506851),
       U64Lit(6, 119410235, 796056053),
       U64Lit(14, 990141545, 859273719) >>

\* A with_seed that also mixes in how many samplers the process has built so
\* far (a process-wide counter) instead of its arguments alone.
with_seed_counted(x, y, i) ==
    LET built == Cardinality({s \in Samplers : seed[s] # <<>>})
    IN  [k \in Lanes4 |-> wrapping_mul(SeedHash(x + built, y, i), SeedPrimes[k])]

\* Rng::with_seed: the state of a new sampler.
with_seed(x, y, i) ==
    [k \in Lanes4 |-> wrapping_mul(SeedHash(x, y, i), SeedPrimes[k])]

\* A next() whose multipliers are twice as large (even), as the comment in
\* the source invites to try.
next_doubled_factors(state) ==
    [ ret   |-> state,
      state |-> [k \in Lanes4 |->
                    wrapping_mul(state[k], wrapping_mul(AsU64(2), Factors[k]))] ]

\* Rng::next: returns the old state, commits the multiplied one.
next(state) ==
    [ ret   |-> state,
      state |-> [k \in Lanes4 |-> wrapping_mul(state[k], Factors[k])] ]

\* transmute of a Mu64 into 8 lanes of 32 bits: lane 2k-1 is the low half
\* of the u64 lane k, lane 2k its high half (little endian).
transmute(v) ==
    [l \in Lanes8 |->
        LET w == v[(l + 1) \div 2]
        IN  IF l % 2 = 1 THEN <<w[1], w[2], w[3], w[4]>>
                         ELSE <<w[5], w[6], w[7], w[8]>>]

\* Rng::sample_u32
sample_u32(state) ==
    LET n == next(state)
    IN  [ret |-> transmute(n.ret), state |-> n.state]

\* 2^k as an f32, k possibly negative
F32Pow2(k) == [m |-> 1, e |-> k]

\* i32::MIN as f32
I32MinAsF32 == into_mf32(<<0, 0, 0, 128>>)

\* c / d for d a power of two (d.m = 1 or -1)
F32DivPow2(c, d) == F32Norm([m |-> c.m * d.m, e |-> c.e - d.e])

\* Rng::sample_unit
sample_unit(state) ==
    LET n     == next(state)
        mi32  == transmute(n.ret)
        range == F32DivPow2(F32Pow2(-1), I32MinAsF32)
        half  == F32Pow2(-1)
    IN  [ret   |-> [l \in Lanes8 |-> mul_add(into_mf32(mi32[l]), range, half)],
         state |-> n.state]

\* Rng::sample_biunit
sample_biunit(state) ==
    LET n     == next(state)
        mi32  == transmute(n.ret)
        range == F32DivPow2(F32One, I32MinAsF32)
    IN  [ret   |-> [l \in Lanes8 |-> F32Mul(into_mf32(mi32[l]), range)],
         state |-> n.state]

InitRng ==
    /\ rng  = [s \in Samplers |-> <<>>]
    /\ seed = [s \in Samplers |-> <<>>]
    /\ hist = [s \in Samplers |-> <<>>]

\* let rng = Rng::with_seed(x, y, i)
WithSeed(s, t) ==
    /\ seed[s] = <<>>
    /\ rng'  = [rng EXCEPT ![s] = with_seed(t[1], t[2], t[3])]
    /\ seed' = [seed EXCEPT ![s] = t]
    /\ UNCHANGED <<hist, bufVars, parVars, shade>>

Draw(s, kind, r) ==
    /\ rng'  = [rng EXCEPT ![s] = r.state]
    /\ hist' = [hist EXCEPT ![s] =
                   Append(@, [kind |-> kind, pre |-> rng[s], out |-> r.ret])]
    /\ UNCHANGED <<seed, bufVars, parVars, shade>>

CanDraw(s) == seed[s] # <<>> /\ Len(hist[s]) < MaxDraws

SampleU32(s)    == CanDraw(s) /\ Draw(s, "u32", sample_u32(rng[s]))
SampleUnit(s)   == CanDraw(s) /\ Draw(s, "unit", sample_unit(rng[s]))
SampleBiunit(s) == CanDraw(s) /\ Draw(s, "biunit", sample_biunit(rng[s]))

NextRng ==
    \/ \E s \in Samplers, t \in SeedChoices : WithSeed(s, t)
    \/ \E s \in Samplers : SampleU32(s)
    \/ \E s \in Samplers : SampleUnit(s)
    \/ \E s \in Samplers : SampleBiunit(s)


(***************************************************************************)
(* The frame buffer and the tile renderer, src/src/renderer.rs.            *)
(*                                                                         *)
(* The renderer and the buffer of a session are made with the same width   *)
(* and height.  An Mi32 storage word is a tuple of 8 lanes, each an i32.   *)
(* Screen coordinates are fractions n / width, kept as the numerator n     *)
(* (for the widths of this model, powers of two, the f32 arithmetic of     *)
(* get_pixel_coords_16x4 is exact).  A colour channel is a fraction        *)
(* c / 256, kept as c.                                                     *)
(***************************************************************************)
MaxWidth8  == 4      \* widths and patch widths are 8 * (0 .. MaxWidth8)
MaxHeight8 == 2      \* heights are 8 * (0 .. MaxHeight8)
MaxOps     == 2      \* calls made on one buffer
NumScenes  == 2      \* states of the scene collaborator

Widths      == {8 * k : k \in 0..MaxWidth8}
Heights     == {8 * k : k \in 0..MaxHeight8}
PatchWidths == {8 * k : k \in 1..MaxWidth8}
Scenes      == 1..NumScenes

\* What freshly allocated, never written memory may hold: any bits at all.
\* The model lets a new buffer hold one of these lane values in every lane.
GarbageLanes == {-1, 305419896}

\* Mi32::zero() and Mi32::broadcast(v)
Mi32Broadcast(v) == [l \in Lanes8 |-> v]
Mi32Zero == Mi32Broadcast(0)

\* A RenderBuffer::new that asserts on the width only.
RenderBuffer_new_width_only(w, h, garbage) ==
    IF w % 16 # 0
    THEN [err |-> "InvalidDimensions", buffer |-> <<>>]
    ELSE LET num_elems == (w * h) \div 8
         IN  [err |-> "", buffer |-> [i \in 1..num_elems |-> Mi32Broadcast(garbage)]]

\* RenderBuffer::new: the new vector, or the failed assertion.
RenderBuffer_new(w, h, garbage) ==
    IF w % 16 # 0 \/ h % 16 # 0
    THEN [err |-> "InvalidDimensions", buffer |-> <<>>]
    ELSE LET num_elems == (w * h) \div 8
         IN  [err |-> "", buffer |-> [i \in 1..num_elems |-> Mi32Broadcast(garbage)]]

\* RenderBuffer::fill_black
fill_black(buf) == [i \in 1..Len(buf) |-> Mi32Zero]

\* Byte k (from 0) of an i32 in memory, little endian two's complement.
I32Byte(v, k) == (v \div Pow2(8 * k)) % 256

\* RenderBuffer::into_bitmap: the same memory read as bytes; byte n (from 0)
\* of the result is byte n % 4 of lane (n / 4) % 8 of word n / 32.
into_bitmap(buf) ==
    [n \in 1..(Len(buf) * 32) |->
        LET k == n - 1
        IN  I32Byte(buf[(k \div 32) + 1][((k \div 4) % 8) + 1], k % 4)]

\* The irradiance the scene collaborator yields at a screen coordinate (the
\* camera, the intersection engine and the light are outside this file).
Irradiance(sc, sx, sy) == (7 * sx + 13 * sy + 31 * sc) % 17

\* Renderer::get_pixel_coords_16x4: 8 batches of 8 lanes, xs and ys.
get_pixel_coords_16x4(x, y) ==
    LET scale_mul == <<2 * 2, 4 * 2, 8 * 2, 12 * 2>>
        off_x  == <<0, 1, 2, 3, 0, 1, 2, 3>>
        off_y  == <<0, 0, 0, 0, 1, 1, 1, 1>>
        base_x == [l \in Lanes8 |-> 2 * off_x[l] + (2 * x - width)]
        base_y == [l \in Lanes8 |-> 2 * off_y[l] + (2 * y - height)]
        plus(v, c) == [l \in Lanes8 |-> v[l] + c]
    IN  [xs |-> << base_x, base_x,
                   plus(base_x, scale_mul[2]), plus(base_x, scale_mul[2]),
                   plus(base_x, scale_mul[3]), plus(base_x, scale_mul[3]),
                   plus(base_x, scale_mul[4]), plus(base_x, scale_mul[4]) >>,
         ys |-> << base_y, plus(base_y, scale_mul[1]),
                   base_y, plus(base_y, scale_mul[1]),
                   base_y, plus(base_y, scale_mul[1]),
                   base_y, plus(base_y, scale_mul[1]) >>]

\* Renderer::render_pixels: the colour of 8 pixels, light colour (20, 0, 0)
\* times the irradiance.
render_pixels(x, y) ==
    [l \in Lanes8 |-> [x |-> 20 * Irradiance(scene, x[l], y[l]), y |-> 0, z |-> 0]]

\* Mf32::clamp_one on one channel
clamp_one(c) == IF c < 0 THEN 0 ELSE IF c > 256 THEN 256 ELSE c

\* (c * 255.0).into_mi32(): the nearest integer, ties to even
Scale255(c) ==
    LET n == c * 255
        q == n \div 256
        r == n % 256
    IN  IF r > 128 \/ (r = 128 /\ q % 2 = 1) THEN q + 1 ELSE q

\* The packed RGBA lane of one colour: (r | g << 8) | (b << 16 | 0xff000000)
\* as an i32; the fields do not overlap, so the ors are sums.
PackRgba(rgb) ==
    Scale255(clamp_one(rgb.x)) + Scale255(clamp_one(rgb.y)) * 256
        + Scale255(clamp_one(rgb.z)) * 65536 - 16777216

\* The 8 packed batches `rgbas` of the block at (x, y).
Rgbas(x, y) ==
    LET c == get_pixel_coords_16x4(x, y)
    IN  [i \in Lanes8 |->
            LET rgbs == render_pixels(c.xs[i], c.ys[i])
            IN  [l \in Lanes8 |-> PackRgba(rgbs[l])]]

mk_line0(left, right) ==
    <<left[1], left[2], left[3], left[4], right[1], right[2], right[3], right[4]>>
mk_line1(left, right) ==
    <<left[5], left[6], left[7], left[8], right[5], right[6], right[7], right[8]>>

\* An index computation that takes a storage word to hold 16 pixels.
IdxLine_16_per_word(k, x, y) == (y * width + k * width + x) \div 16

\* idx_line0 .. idx_line3 of render_block_16x4.  The source computes in u32;
\* the frames of this model keep the sum far below 2^32, so it never wraps.
IdxLine(k, x, y) == (y * width + k * width + x) \div 8

\* Stores that take the batches to lie left to right, two rows each, in
\* the order 0 1 2 3 / 4 5 6 7 instead of the order of get_pixel_coords_16x4.
BlockStores_batches_in_rows(x, y) ==
    LET rgbas == Rgbas(x, y)
    IN  << [idx |-> IdxLine(0, x, y) + 0, val |-> mk_line0(rgbas[1], rgbas[2])],
           [idx |-> IdxLine(0, x, y) + 1, val |-> mk_line0(rgbas[3], rgbas[4])],
           [idx |-> IdxLine(1, x, y) + 0, val |-> mk_line1(rgbas[1], rgbas[2])],
           [idx |-> IdxLine(1, x, y) + 1, val |-> mk_line1(rgbas[3], rgbas[4])],
           [idx |-> IdxLine(2, x, y) + 0, val |-> mk_line0(rgbas[5], rgbas[6])],
           [idx |-> IdxLine(2, x, y) + 1, val |-> mk_line0(rgbas[7], rgbas[8])],
           [idx |-> IdxLine(3, x, y) + 0, val |-> mk_line1(rgbas[5], rgbas[6])],
           [idx |-> IdxLine(3, x, y) + 1, val |-> mk_line1(rgbas[7], rgbas[8])] >>

\* The 8 stores of render_block_16x4 in program order, [idx, val] each;
\* rgbas[i] of the source is rgbas[i + 1] here.
BlockStores(x, y) ==
    LET rgbas == Rgbas(x, y)
    IN  << [idx |-> IdxLine(0, x, y) + 0, val |-> mk_line0(rgbas[1], rgbas[3])],
           [idx |-> IdxLine(0, x, y) + 1, val |-> mk_line0(rgbas[5], rgbas[7])],
           [idx |-> IdxLine(1, x, y) + 0, val |-> mk_line1(rgbas[1], rgbas[3])],
           [idx |-> IdxLine(1, x, y) + 1, val |-> mk_line1(rgbas[5], rgbas[7])],
           [idx |-> IdxLine(2, x, y) + 0, val |-> mk_line0(rgbas[2], rgbas[4])],
           [idx |-> IdxLine(2, x, y) + 1, val |-> mk_line0(rgbas[6], rgbas[8])],
           [idx |-> IdxLine(3, x, y) + 0, val |-> mk_line1(rgbas[2], rgbas[4])],
           [idx |-> IdxLine(3, x, y) + 1, val |-> mk_line1(rgbas[6], rgbas[8])] >>

\* A render in progress: the slice, the failure if any, the indices stored
\* to, the number of stores made and the blocks rendered so far.
Rendering(buf) ==
    [bitmap |-> buf, err |-> "", wrote |-> {}, count |-> 0, blocks |-> <<>>]

\* bitmap[idx] = val, with the bounds check of slice indexing.
Store(r, st) ==
    IF r.err # "" THEN r
    ELSE IF st.idx >= Len(r.bitmap) THEN [r EXCEPT !.err = "IndexOutOfBounds"]
    ELSE [r EXCEPT !.bitmap[st.idx + 1] = st.val, !.wrote = @ \cup {st.idx},
                   !.count = @ + 1]

RECURSIVE StoreAll(_, _, _)
StoreAll(r, stores, k) ==
    IF k > Len(stores) THEN r ELSE StoreAll(Store(r, stores[k]), stores, k + 1)

\* Renderer::render_block_16x4
render_block_16x4(r, x, y) ==
    IF r.err # "" THEN r
    ELSE StoreAll([r EXCEPT !.blocks = Append(@, <<x, y>>)], BlockStores(x, y), 1)

\* The loop of render_patch, block n (from 0) onward: i = n / h, j = n % h.
RECURSIVE PatchLoop(_, _, _, _, _, _)
PatchLoop(r, w, h, x, y, n) ==
    IF n >= w * h THEN r
    ELSE PatchLoop(render_block_16x4(r, x + (n \div h) * 16, y + (n % h) * 4),
                   w, h, x, y, n + 1)

\* A render_patch that renders its blocks first and asserts afterwards.
render_patch_asserts_last(r, patch_width, x, y) ==
    LET h    == patch_width \div 4
        w    == patch_width \div 16
        done == PatchLoop(r, w, h, x, y, 0)
    IN  IF patch_width % 16 # 0 THEN [done EXCEPT !.err = "InvalidDimensions"]
        ELSE done

\* A render_patch that takes the patch to be as many blocks high as wide.
render_patch_square_of_blocks(r, patch_width, x, y) ==
    IF patch_width % 16 # 0 THEN [r EXCEPT !.err = "InvalidDimensions"]
    ELSE LET h == patch_width \div 16
             w == patch_width \div 16
         IN  PatchLoop(r, w, h, x, y, 0)

\* Renderer::render_patch
render_patch(r, patch_width, x, y) ==
    IF patch_width % 16 # 0 THEN [r EXCEPT !.err = "InvalidDimensions"]
    ELSE LET h == patch_width \div 4
             w == patch_width \div 16
         IN  PatchLoop(r, w, h, x, y, 0)

(***************************************************************************)
(* The calls a session makes on one buffer, one after another.             *)
(***************************************************************************)
Call(op, a, b, c) == [op |-> op, a |-> a, b |-> b, c |-> c]

\* Block and patch origins: x a multiple of 16, y a multiple of 4, inside
\* the frame.
BlockXs == {x \in 0..(width - 1)  : x % 16 = 0}
BlockYs == {y \in 0..(height - 1) : y % 4 = 0}

BufOff ==
    /\ width = 0 /\ height = 0 /\ scene = 1
    /\ buffer = <<>> /\ bufState = "none" /\ written = {}
    /\ bitmap = <<>> /\ err = "" /\ last = Call("none", 0, 0, 0) /\ ops = 0

InitBuf ==
    /\ width = 0 /\ height = 0
    /\ scene \in Scenes
    /\ buffer = <<>> /\ bufState = "none" /\ written = {}
    /\ bitmap = <<>> /\ err = "" /\ last = Call("none", 0, 0, 0) /\ ops = 0

\* Renderer::new(scene, w, h) and RenderBuffer::new(w, h)
New(w, h, g) ==
    /\ bufState = "none" /\ err = ""
    /\ LET r == RenderBuffer_new(w, h, g)
       IN  /\ err' = r.err
           /\ buffer' = r.buffer
           /\ bufState' = IF r.err = "" THEN "live" ELSE "none"
    /\ width' = w /\ height' = h
    /\ last' = Call("new", w, h, 0)
    /\ UNCHANGED <<scene, written, bitmap, ops, rngVars, parVars, shade>>

Live == bufState = "live" /\ err = "" /\ ops < MaxOps

FillBlack ==
    /\ Live
    /\ buffer' = fill_black(buffer)
    /\ written' = 0..(Len(buffer) - 1)
    /\ last' = Call("fill_black", 0, 0, 0)
    /\ ops' = ops + 1
    /\ UNCHANGED <<width, height, scene, bufState, bitmap, err>>
    /\ UNCHANGED <<rngVars, parVars, shade>>

Rendered(r, call) ==
    /\ buffer' = r.bitmap
    /\ written' = written \cup r.wrote
    /\ err' = r.err
    /\ last' = call
    /\ ops' = ops + 1
    /\ UNCHANGED <<width, height, scene, bufState, bitmap>>
    /\ UNCHANGED <<rngVars, parVars, shade>>

RenderBlock(x, y) ==
    /\ Live
    /\ Rendered(render_block_16x4(Rendering(buffer), x, y),
                Call("render_block", x, y, 0))

RenderPatch(pw, x, y) ==
    /\ Live
    /\ Rendered(render_patch(Rendering(buffer), pw, x, y),
                Call("render_patch", x, y, pw))

\* Renderer::update_scene: the light has moved.
UpdateScene ==
    /\ Live
    /\ \E sc \in Scenes \ {scene} : scene' = sc
    /\ last' = Call("update_scene", 0, 0, 0)
    /\ ops' = ops + 1
    /\ UNCHANGED <<width, height, buffer, bufState, written, bitmap, err>>
    /\ UNCHANGED <<rngVars, parVars, shade>>

\* RenderBuffer::into_bitmap; tasks that write to the buffer, if any were
\* started, have all returned.
IntoBitmap ==
    /\ bufState = "live" /\ err = ""
    /\ tasks # <<>> => \A t \in DOMAIN tasks : tasks[t].pc = 8
    /\ bitmap' = into_bitmap(buffer)
    /\ bufState' = "consumed"
    /\ last' = Call("into_bitmap", 0, 0, 0)
    /\ UNCHANGED <<width, height, scene, buffer, written, err, ops>>
    /\ UNCHANGED <<rngVars, parVars, shade>>

(***************************************************************************)
(* One render_patch on a fresh buffer: the frame, its previous content,    *)
(* the patch width and the patch origin are the inputs.                    *)
(***************************************************************************)
MaxFrame16 == 2      \* frames are 16 * (1 .. MaxFrame16) wide and high

Frames == {16 * k : k \in 1..MaxFrame16}
FramePatchWidths == {8 * k : k \in 1..(2 * MaxFrame16)}

InitPatch ==
    /\ width \in Frames /\ height \in Frames
    /\ scene = 1
    /\ \E g \in GarbageLanes :
          buffer = RenderBuffer_new(width, height, g).buffer
    /\ bufState = "live" /\ written = {} /\ bitmap = <<>> /\ err = ""
    /\ last = Call("new", width, height, 0) /\ ops = 0

\* renderer.render_patch(bitmap, pw, x, y), the first call on the buffer
PatchOnce(pw, x, y) == ops = 0 /\ RenderPatch(pw, x, y)

NextPatch ==
    \E pw \in FramePatchWidths, x \in BlockXs, y \in 0..(height - 1) :
        PatchOnce(pw, x, y)

NextBuf ==
    \/ \E w \in Widths, h \in Heights, g \in GarbageLanes : New(w, h, g)
    \/ FillBlack
    \/ \E x \in BlockXs, y \in BlockYs : RenderBlock(x, y)
    \/ \E pw \in PatchWidths, x \in BlockXs, y \in BlockYs : RenderPatch(pw, x, y)
    \/ UpdateScene
    \/ IntoBitmap

(***************************************************************************)
(* Worker tasks that render blocks into the shared buffer through          *)
(* get_mut_slice.  A task computes the colours of its block, which reads   *)
(* nothing that changes while tasks run, and then does the 8 stores of     *)
(* render_block_16x4 one word at a time; the stores of different tasks     *)
(* interleave freely.                                                      *)
(***************************************************************************)
NumTasks == 2        \* worker tasks

Tasks == 1..NumTasks

AllBlocks == {<<x, y>> : x \in BlockXs, y \in BlockYs}
BlockRank(b) == (b[1] \div 16) * (height \div 4) + (b[2] \div 4)

ParOff == tasks = <<>> /\ stored = {} /\ start = <<>> /\ mixed = FALSE

\* A session whose buffer is allocated and whose tasks are not yet started.
InitPar ==
    /\ ParOff
    /\ width \in Widths \ {0} /\ height \in Heights \ {0}
    /\ scene \in Scenes
    /\ \E g \in GarbageLanes :
          LET r == RenderBuffer_new(width, height, g)
          IN  r.err = "" /\ buffer = r.buffer
    /\ bufState = "live" /\ written = {} /\ bitmap = <<>> /\ err = ""
    /\ last = Call("new", width, height, 0) /\ ops = 0

\* The dispatcher hands every task a block of its own.
Dispatch ==
    /\ tasks = <<>> /\ bufState = "live"
    /\ \E f \in [Tasks -> AllBlocks] :
          /\ \A i, j \in Tasks : i < j => BlockRank(f[i]) < BlockRank(f[j])
          /\ tasks' = [t \in Tasks |->
                          [x |-> f[t][1], y |-> f[t][2],
                           stores |-> BlockStores(f[t][1], f[t][2]), pc |-> 0]]
    /\ start' = buffer
    /\ UNCHANGED <<stored, mixed, bufVars, rngVars, shade>>

\* Task t does its next store through its view of the whole buffer.
TaskStore(t) ==
    /\ tasks # <<>> /\ tasks[t].pc < 8
    /\ LET st == tasks[t].stores[tasks[t].pc + 1]
           r  == Store(Rendering(buffer), st)
       IN  /\ buffer' = r.bitmap
           /\ err' = r.err
           /\ written' = written \cup r.wrote
           /\ stored' = stored \cup {<<t, st.idx>>}
    /\ tasks' = [tasks EXCEPT ![t].pc = @ + 1]
    /\ mixed' = (mixed \/ \E u \in Tasks \ {t} : tasks[u].pc \in 1..7)
    /\ last' = Call("store", t, 0, 0)
    /\ UNCHANGED <<width, height, scene, bufState, bitmap, ops, start>>
    /\ UNCHANGED <<rngVars, shade>>

AllDone == tasks # <<>> /\ \A t \in Tasks : tasks[t].pc = 8

NextPar ==
    \/ Dispatch
    \/ \E t \in Tasks : TaskStore(t)
    \/ IntoBitmap

\* The blocks of the tasks rendered one after another, in the given order.
RECURSIVE SeqRender(_, _, _)
SeqRender(r, order, k) ==
    IF k > NumTasks THEN r
    ELSE SeqRender(render_block_16x4(r, tasks[order[k]].x, tasks[order[k]].y),
                   order, k + 1)

(***************************************************************************)
(* The shading function's irradiance term, Renderer::get_irradiance.  The  *)
(* vector arithmetic that leads to it is outside this file; a call is      *)
(* given, per lane, the dot product of the surface normal and the ray      *)
(* direction, the reciprocal square root of the squared distance, and      *)
(* whether the scene holds an occluder between light and surface.          *)
(***************************************************************************)
\* The 4 bytes of an f32 in memory (sign, biased exponent, fraction).
F32Bits(f) ==
    IF f.m = 0 THEN <<0, 0, 0, 0>>
    ELSE LET a    == Aligned(f)
             E    == a.exp + 150
             frac == a.sig - 8388608
             sgn  == IF a.neg THEN 128 ELSE 0
         IN  << frac % 256, (frac \div 256) % 256,
                (E % 2) * 128 + frac \div 65536, sgn + E \div 2 >>

\* The f32 that 4 bytes hold (zero, subnormal or normal).
F32FromBits(b) ==
    LET E    == (b[4] % 128) * 2 + b[3] \div 128
        frac == (b[3] % 128) * 65536 + b[2] * 256 + b[1]
        mag  == IF E = 0 THEN [m |-> frac, e |-> -149]
                         ELSE [m |-> 8388608 + frac, e |-> E - 150]
    IN  F32Norm(IF b[4] >= 128 THEN F32Neg(mag) ELSE mag)

RECURSIVE BitAnd(_, _)
BitAnd(a, b) ==
    IF a = 0 \/ b = 0 THEN 0
    ELSE (a % 2) * (b % 2) + 2 * BitAnd(a \div 2, b \div 2)

\* Mf32 & Mf32 on one lane: the and of the bit patterns.
F32And(f, mask) == F32FromBits([k \in 1..4 |-> BitAnd(F32Bits(f)[k], mask[k])])

MaskOnes  == <<255, 255, 255, 255>>
MaskZeros == <<0, 0, 0, 0>>

\* Scene::intersect_any, one lane: the mask of the any-hit query.
intersect_any(occluded) == IF occluded THEN MaskOnes ELSE MaskZeros

\* Renderer::get_irradiance, one lane.
get_irradiance(dot, inv_dist, occluded) ==
    LET mask      == intersect_any(occluded)
        cos_alpha == F32Max(F32Sub(F32Zero, dot), F32Zero)
        falloff   == F32Mul(inv_dist, inv_dist)
    IN  F32Mul(cos_alpha, F32And(falloff, mask))

\* The inputs of the model's calls: the lanes take these values in turn.
Dots == << [m |-> -1, e |-> 0], [m |-> -3, e |-> -2], [m |-> -1, e |-> -1],
           [m |-> -1, e |-> -3], [m |-> 0, e |-> 0],  [m |-> 1, e |-> -1],
           [m |-> -5, e |-> -3], [m |-> -7, e |-> -3] >>
InvDists == << [m |-> 1, e |-> 0], [m |-> 1, e |-> -1], [m |-> 3, e |-> -3],
               [m |-> 5, e |-> -2], [m |-> 1, e |-> -2], [m |-> 3, e |-> 0],
               [m |-> 7, e |-> -4], [m |-> 1, e |-> 1] >>
Rot(l, r) == ((l + r - 1) % 8) + 1

\* Which lanes are occluded: bit l - 1 of p.
OccludedIn(p, l) == (p \div Pow2(l - 1)) % 2 = 1
OcclusionPatterns == {0, 255, 1, 128, 85, 170, 15, 200}

ShadeOff == shade = <<>>

\* A batch of 8 intersections and a light, not yet shaded.
InitShade ==
    \E rd \in 0..7, ri \in 0..3, p \in OcclusionPatterns :
        shade = [l \in Lanes8 |->
                    [dot      |-> Dots[Rot(l, rd)],
                     inv_dist |-> InvDists[Rot(l, ri)],
                     occluded |-> OccludedIn(p, l),
                     called   |-> FALSE,
                     out      |-> F32Zero]]

GetIrradiance ==
    /\ \A l \in Lanes8 : ~shade[l].called
    /\ shade' =
          [l \in Lanes8 |->
              [shade[l] EXCEPT
                  !.called = TRUE,
                  !.out = get_irradiance(shade[l].dot, shade[l].inv_dist,
                                         shade[l].occluded)]]
    /\ UNCHANGED <<rngVars, bufVars, parVars>>

NextShade == GetIrradiance

(***************************************************************************)
(* The specifications.                                                     *)
(***************************************************************************)
vars == <<rng, seed, hist,
          width, height, scene, buffer, bufState, written, bitmap, err, last, ops,
          tasks, stored, start, mixed,
          shade>>

\* the sampler
InitSampler == InitRng /\ BufOff /\ ParOff /\ ShadeOff
SpecRng == InitSampler /\ [][NextRng]_vars

\* one session's calls on its buffer
InitSession == InitBuf /\ InitRng /\ ParOff /\ ShadeOff
SpecBuf == InitSession /\ [][NextBuf]_vars

\* worker tasks on the shared buffer
InitWorkers == InitPar /\ InitRng /\ ShadeOff
SpecPar == InitWorkers /\ [][NextPar]_vars

\* one patch of one frame
InitPatchCall == InitPatch /\ InitRng /\ ParOff /\ ShadeOff
SpecPatch == InitPatchCall /\ [][NextPatch]_vars

\* the irradiance term
InitIrradiance == InitShade /\ InitRng /\ BufOff /\ ParOff
SpecShade == InitIrradiance /\ [][NextShade]_vars

(***************************************************************************)
(* Properties.                                                             *)
(***************************************************************************)

\* The RGBA bytes of pixel (i, j) of a bitmap, raster order.
BitmapPixel(bm, i, j) ==
    LET o == 4 * (j * width + i)
    IN  <<bm[o + 1], bm[o + 2], bm[o + 3], bm[o + 4]>>

\* The RGBA bytes of the colour shaded for lane `lane` of batch `batch`
\* (both from 0) of the block at (x, y).
ShadedBytes(x, y, batch, lane) ==
    LET c   == get_pixel_coords_16x4(x, y)
        rgb == render_pixels(c.xs[batch + 1], c.ys[batch + 1])[lane + 1]
    IN  << Scale255(clamp_one(rgb.x)), Scale255(clamp_one(rgb.y)),
           Scale255(clamp_one(rgb.z)), 255 >>

\* C1: right after render_block_16x4(x, y), for every offset (dx, dy) of the
\* block, the pixel of into_bitmap at raster position (x + dx, y + dy), which
\* is lane (x + dx) mod 8 of storage word ((y + dy) * width + x + dx) div 8,
\* holds the RGBA bytes shaded for batch 2 * (dx div 4) + dy div 2, lane
\* 4 * (dy mod 2) + dx mod 4 of get_pixel_coords_16x4(x, y), and that lane
\* holds the screen coordinate of pixel (x + dx, y + dy).
C1_RoundTrip ==
    (last.op = "render_block" /\ err = "") =>
        \A dx \in 0..15, dy \in 0..3 :
            LET px    == last.a + dx
                py    == last.b + dy
                batch == 2 * (dx \div 4) + (dy \div 2)
                lane  == 4 * (dy % 2) + (dx % 4)
                c     == get_pixel_coords_16x4(last.a, last.b)
                want  == ShadedBytes(last.a, last.b, batch, lane)
                word  == buffer[((py * width + px) \div 8) + 1]
                pixel == word[(px % 8) + 1]
            IN  /\ BitmapPixel(into_bitmap(buffer), px, py) = want
                /\ [k \in 1..4 |-> I32Byte(pixel, k - 1)] = want
                /\ c.xs[batch + 1][lane + 1] = 2 * px - width
                /\ c.ys[batch + 1][lane + 1] = 2 * py - height

\* A block away from the origin of a frame two blocks wide was rendered.
C1_Witness ==
    /\ last.op = "render_block" /\ err = ""
    /\ width = 32 /\ last.a = 16 /\ last.b = 8
    /\ BitmapPixel(into_bitmap(buffer), 16, 8) # BitmapPixel(into_bitmap(buffer), 17, 8)

\* C2: tasks that render distinct blocks store to pairwise disjoint sets of
\* storage words (no word is stored to by two tasks), under every
\* interleaving of their stores, and once all are done the buffer equals the
\* one obtained by rendering the blocks one after another, in any order.
C2_DisjointWrites ==
    /\ \A p, q \in stored : p[2] = q[2] => p[1] = q[1]
    /\ AllDone =>
          \A order \in Permutations(Tasks) :
              buffer = SeqRender(Rendering(start), order, 1).bitmap

\* All tasks finished after their stores interleaved, in a frame that has
\* blocks side by side.
C2_Witness ==
    /\ AllDone /\ mixed /\ bufState = "live"
    /\ width = 32 /\ tasks[1].x # tasks[2].x /\ tasks[1].y = tasks[2].y
    /\ Cardinality(stored) = 8 * NumTasks

\* The calls of sampler 1 and of sampler 2 are of the same kinds up to call k.
SameCalls(k) == \A j \in 1..k : hist[1][j].kind = hist[2][j].kind

C4_WrittenBeforeRead ==
    bufState = "consumed" => \A i \in 0..(Len(buffer) - 1) : i \in written

\* C5: a render_patch whose patch_width is not a multiple of 16 fails with
\* InvalidDimensions and leaves every storage word as it was.
C5_BadPatchWidth ==
    [][(last'.op = "render_patch" /\ ops' = ops + 1 /\ last'.c % 16 # 0)
          => (err' = "InvalidDimensions" /\ buffer' = buffer)]_vars

\* render_patch was called with a patch width of 24, which spans a block.
C5_Witness ==
    /\ last.op = "render_patch" /\ last.c = 24
    /\ err = "InvalidDimensions" /\ Len(buffer) > 0

\* C6: allocation fails with InvalidDimensions when the width or the height
\* is not a multiple of 16; otherwise the buffer has exactly width * height / 8
\* storage words, and into_bitmap yields width * height * 4 bytes.
C6_Allocate ==
    /\ last.op = "new" =>
          IF last.a % 16 # 0 \/ last.b % 16 # 0
          THEN err = "InvalidDimensions" /\ bufState = "none"
          ELSE err = "" /\ bufState = "live" /\ Len(buffer) * 8 = last.a * last.b
    /\ bufState = "consumed" => Len(bitmap) = width * height * 4

\* An allocation with a good width and a bad height has failed.
C6_Witness ==
    /\ last.op = "new" /\ last.a = 16 /\ last.b = 8
    /\ err = "InvalidDimensions"

\* v < 1 and v >= -1, as the repository's tests compare: by the sign of a
\* difference or sum.
F32BelowOne(v)       == F32Sub(v, F32One).m < 0
F32AtLeastMinusOne(v) == SignBitPositive(F32Add(F32One, v))

\* C7: every lane that sample_unit returns is >= 0 and strictly < 1.
C7_UnitHalfOpen ==
    \A s \in Samplers : \A k \in 1..Len(hist[s]) :
        hist[s][k].kind = "unit" =>
            \A l \in Lanes8 :
                SignBitPositive(hist[s][k].out[l]) /\ F32BelowOne(hist[s][k].out[l])

\* C8: every lane that sample_biunit returns is >= -1 and strictly < 1.
C8_BiunitHalfOpen ==
    \A s \in Samplers : \A k \in 1..Len(hist[s]) :
        hist[s][k].kind = "biunit" =>
            \A l \in Lanes8 :
                F32AtLeastMinusOne(hist[s][k].out[l]) /\ F32BelowOne(hist[s][k].out[l])

\* C9: get_irradiance returns exactly zero in every lane whose shadow ray is
\* occluded, and cos_alpha * falloff in every clear lane.
C9_OcclusionZeroes ==
    \A l \in Lanes8 :
        shade[l].called =>
            LET cos_alpha == F32Max(F32Sub(F32Zero, shade[l].dot), F32Zero)
                falloff   == F32Mul(shade[l].inv_dist, shade[l].inv_dist)
            IN  IF shade[l].occluded THEN shade[l].out = F32Zero
                ELSE shade[l].out = F32Mul(cos_alpha, falloff)

\* C10: for every seed, (0, 0, 0) included, the state reached by with_seed
\* and any number of next() steps is never the all-zero vector.
C10_NotDegenerate ==
    \A s \in Samplers :
        seed[s] # <<>> => rng[s] # [k \in Lanes4 |-> U64Zero]

\* The inverse of an odd f modulo 2^64, by Newton's iteration from f itself
\* (f * f = 1 modulo 8; each step doubles the number of correct bits).
RECURSIVE InverseFrom(_, _, _)
InverseFrom(f, inv, n) ==
    IF n = 0 THEN inv
    ELSE InverseFrom(f,
                     wrapping_mul(inv, U64Sub(AsU64(2), wrapping_mul(f, inv))),
                     n - 1)

FactorInverses ==
    << InverseFrom(Factors[1], Factors[1], 5),
       InverseFrom(Factors[2], Factors[2], 5),
       InverseFrom(Factors[3], Factors[3], 5),
       InverseFrom(Factors[4], Factors[4], 5) >>

\* The state a sampler holds after its call j (its current state after the
\* last one).
StateAfter(s, j) == IF j < Len(hist[s]) THEN hist[s][j + 1].pre ELSE rng[s]

\* C11: each call of next() returns the state held before the call (the
\* first call the state with_seed made) and commits, lane by lane, that
\* state times the lane's multiplier modulo 2^64; the four multipliers are
\* odd and distinct, each has an inverse modulo 2^64 that takes the committed
\* lane back to the one before, and lanes that differ before a call differ
\* after it.
C11_AdvanceStep ==
    /\ \A k \in Lanes4 :
          /\ Factors[k][1] % 2 = 1
          /\ wrapping_mul(Factors[k], FactorInverses[k]) = AsU64(1)
          /\ \A j \in Lanes4 : j # k => Factors[j] # Factors[k]
    /\ \A s \in Samplers :
          \* the record of a call is never altered: the first call is
          \* examined when it is the only one
          Len(hist[s]) = 1 =>
              hist[s][1].pre = with_seed(seed[s][1], seed[s][2], seed[s][3])
    /\ \A s \in Samplers : \A j \in 1..Len(hist[s]) :
          LET call == hist[s][j]
          IN  /\ call.kind = "u32" => call.out = transmute(call.pre)
              /\ \A k \in Lanes4 :
                    /\ StateAfter(s, j)[k] = wrapping_mul(call.pre[k], Factors[k])
                    /\ wrapping_mul(StateAfter(s, j)[k], FactorInverses[k])
                           = call.pre[k]
    /\ \A s, t \in Samplers : \A j \in 1..Len(hist[s]) :
          j <= Len(hist[t]) =>
              \A k \in Lanes4 :
                  hist[s][j].pre[k] # hist[t][j].pre[k]
                      => StateAfter(s, j)[k] # StateAfter(t, j)[k]

\* Two samplers of different seeds have each advanced twice, the first of
\* them drawing integers first.
C11_Witness ==
    /\ seed[1] = <<2, 5, 7>> /\ seed[2] = <<16, 4, 1>>
    /\ Len(hist[1]) = 2 /\ Len(hist[2]) = 2
    /\ hist[1][1].kind = "u32"
    /\ hist[1][1].out = transmute(with_seed(2, 5, 7))
    /\ rng[1] # hist[1][2].pre
    /\ \A k \in Lanes4 : rng[1][k] # rng[2][k]

\* The storage words of the pixel region [x, x + pw) x [y, y + pw).
RegionWords(x, y, pw) ==
    {(row * width + col) \div 8 : row \in y..(y + pw - 1), col \in x..(x + pw - 1)}

\* The origins of the blocks that tile the patch.
PatchBlocks(x, y, pw) ==
    {<<x + 16 * i, y + 4 * j>> : i \in 0..((pw \div 16) - 1),
                                 j \in 0..((pw \div 4) - 1)}

\* C12: a render_patch(pw, x, y) with pw and x multiples of 16 and the patch
\* inside the buffer fails nowhere, renders exactly the (pw / 16) * (pw / 4)
\* blocks at (x + 16 i, y + 4 j), each once, stores exactly once to every
\* storage word of the pixel region [x, x + pw) x [y, y + pw) and to no
\* other, leaves in each of them what the block's store put there, and
\* leaves every storage word outside the region as it was.
C12_PatchCoverage ==
    [][(/\ last'.op = "render_patch" /\ ops' = ops + 1
        /\ last'.c % 16 = 0 /\ last'.a % 16 = 0
        /\ last'.a + last'.c <= width /\ last'.b + last'.c <= height)
          => LET x  == last'.a
                 y  == last'.b
                 pw == last'.c
                 r  == render_patch(Rendering(buffer), pw, x, y)
                 region == RegionWords(x, y, pw)
                 blocks == PatchBlocks(x, y, pw)
             IN  /\ err' = "" /\ r.err = ""
                 /\ buffer' = r.bitmap /\ Len(buffer') = Len(buffer)
                 /\ {r.blocks[n] : n \in 1..Len(r.blocks)} = blocks
                 /\ Len(r.blocks) = (pw \div 16) * (pw \div 4)
                 /\ Cardinality(blocks) = (pw \div 16) * (pw \div 4)
                 /\ r.wrote = region
                 /\ r.count = Cardinality(region)
                 /\ 8 * Cardinality(region) = pw * pw
                 /\ region \subseteq 0..(Len(buffer) - 1)
                 /\ written' = written \cup region
                 /\ \A b \in blocks : \A m \in 1..8 :
                        LET st == BlockStores(b[1], b[2])[m]
                        IN  buffer'[st.idx + 1] = st.val
                 /\ \A idx \in (0..(Len(buffer) - 1)) \ region :
                        buffer'[idx + 1] = buffer[idx + 1]]_vars

\* A patch two blocks wide and eight blocks high was rendered: all 128
\* storage words of a frame of 32 x 32 pixels.
C12_Witness ==
    /\ last.op = "render_patch" /\ err = ""
    /\ last.a = 0 /\ last.b = 0 /\ last.c = 32
    /\ width = 32 /\ height = 32
    /\ written = 0..127
    /\ buffer[1] # buffer[128]

====
